---- MODULE Spec2Model ----
(***************************************************************************)
(* Elasticsearch MCP server: the two tool handlers                         *)
(* (get-search-by-date-results, get-semantic-search-results), the          *)
(* Streamable-HTTP routes of src/src/index.ts and the SSE routes and       *)
(* session map of src/unnamed/part_000.                                    *)
(*                                                                         *)
(* A JavaScript string is a sequence of one-character strings; a value     *)
(* that may be undefined is a record [def, s].                             *)
(***************************************************************************)
EXTENDS Integers, Sequences, FiniteSets, TLC

VARIABLES
    tz,         \* the process's local time zone offset, minutes east of UTC
    INDEX,      \* process.env.INDEX_NAME, read once at start
    pc,         \* per tool call: idle | awaiting | returned | faulted
    tool,       \* per tool call: the tool invoked
    input,      \* per tool call: the handler's input object
    searchLog,  \* per tool call: the requests it passed to _client.search
    response,   \* per tool call: the hits the engine answered with
    result,     \* per tool call: the value the handler returned
    steps,      \* per tool call: the pipeline steps it has executed, in order
    listening,  \* HTTP server: starting | listening | exited
    reqState,   \* per HTTP request of index.ts: its method, position, response
    errorLog,   \* index.ts: what console.error has logged
    transports, \* part_000: own properties of the `transports` object
    conns,      \* part_000: per SSE connection, closed or open with a session
    posts       \* part_000: outcome of each POST /es-queries handled

toolVars == <<tz, INDEX, pc, tool, input, searchLog, response, result, steps>>
mcpVars == <<listening, reqState, errorLog>>
sseVars == <<transports, conns, posts>>
vars == <<tz, INDEX, pc, tool, input, searchLog, response, result, steps,
          listening, reqState, errorLog, transports, conns, posts>>

-----------------------------------------------------------------------------
(* Bounds *)

NumCalls == 2
ConcHits == 1
MaxHits == 2
NumRequests == 3
NumConns == 2
MaxPosts == 2

-----------------------------------------------------------------------------
(* JavaScript values *)

Undefined == [def |-> FALSE, s |-> <<>>]
Str(chars) == [def |-> TRUE, s |-> chars]

\* !x for x a string or undefined: undefined and "" are falsy.
Truthy(x) == x.def /\ x.s # <<>>

NaN == [nan |-> TRUE, n |-> 0]
Num(n) == [nan |-> FALSE, n |-> n]

Digits == <<"0", "1", "2", "3", "4", "5", "6", "7", "8", "9">>
IsDigit(ch) == \E i \in 1..10 : Digits[i] = ch
DigitVal(ch) == (CHOOSE i \in 1..10 : Digits[i] = ch) - 1

RECURSIVE NatToStr(_)
NatToStr(n) == IF n < 10 THEN <<Digits[n + 1]>>
               ELSE NatToStr(n \div 10) \o <<Digits[(n % 10) + 1]>>

\* String(x) for a number x.
String(x) == IF x.nan THEN <<"N", "a", "N">>
             ELSE IF x.n < 0 THEN <<"-">> \o NatToStr(-x.n)
             ELSE NatToStr(x.n)

RECURSIVE padStart(_, _, _)
padStart(s, len, fill) == IF Len(s) >= len THEN s
                          ELSE padStart(fill \o s, len, fill)

-----------------------------------------------------------------------------
(* Date: new Date(string), getDate, getMonth, getFullYear *)

MinutesPerDay == 1440

\* Days since 1970-01-01 of a proleptic Gregorian date (month 1..12).
DaysFromCivil(y, m, d) ==
    LET yy == IF m <= 2 THEN y - 1 ELSE y
        era == yy \div 400
        yoe == yy - era * 400
        mp == (m + 9) % 12
        doy == (153 * mp + 2) \div 5 + d - 1
        doe == yoe * 365 + yoe \div 4 - yoe \div 100 + doy
    IN era * 146097 + doe - 719468

\* The date [y, m, d] (month 1..12) of a day number.
CivilFromDays(z) ==
    LET zz == z + 719468
        era == zz \div 146097
        doe == zz - era * 146097
        yoe == (doe - doe \div 1460 + doe \div 36524 - doe \div 146096) \div 365
        doy == doe - (365 * yoe + yoe \div 4 - yoe \div 100)
        mp == (5 * doy + 2) \div 153
        d == doy - (153 * mp + 2) \div 5 + 1
        m == IF mp < 10 THEN mp + 3 ELSE mp - 9
        y == yoe + era * 400 + (IF m <= 2 THEN 1 ELSE 0)
    IN [y |-> y, m |-> m, d |-> d]

AllDigits(s, from, to) == \A i \in from..to : IsDigit(s[i])
Num2(s, i) == 10 * DigitVal(s[i]) + DigitVal(s[i + 1])
Num4(s, i) == 100 * Num2(s, i) + Num2(s, i + 2)

IsDateOnly(s) ==
    /\ Len(s) = 10
    /\ AllDigits(s, 1, 4) /\ s[5] = "-" /\ AllDigits(s, 6, 7)
    /\ s[8] = "-" /\ AllDigits(s, 9, 10)
    /\ Num2(s, 6) \in 1..12 /\ Num2(s, 9) \in 1..31

IsDateTime(s) ==
    /\ Len(s) = 16
    /\ IsDateOnly(SubSeq(s, 1, 10)) /\ s[11] = "T"
    /\ AllDigits(s, 12, 13) /\ s[14] = ":" /\ AllDigits(s, 15, 16)
    /\ Num2(s, 12) \in 0..23 /\ Num2(s, 15) \in 0..59

\* new Date(s): the time value in minutes since the epoch (UTC), or NaN.
\* A date-only ISO string is UTC midnight; a date-time without an offset is
\* local time.
NewDate(s, offset) ==
    IF IsDateOnly(s)
    THEN Num(DaysFromCivil(Num4(s, 1), Num2(s, 6), Num2(s, 9)) * MinutesPerDay)
    ELSE IF IsDateTime(s)
    THEN Num(DaysFromCivil(Num4(s, 1), Num2(s, 6), Num2(s, 9)) * MinutesPerDay
             + 60 * Num2(s, 12) + Num2(s, 15) - offset)
    ELSE NaN

\* The local calendar date of a time value.
LocalCivil(date, offset) == CivilFromDays((date.n + offset) \div MinutesPerDay)

getDate(date, offset) ==
    IF date.nan THEN NaN ELSE Num(LocalCivil(date, offset).d)
\* getMonth() is zero-based.
getMonth(date, offset) ==
    IF date.nan THEN NaN ELSE Num(LocalCivil(date, offset).m - 1)
getFullYear(date, offset) ==
    IF date.nan THEN NaN ELSE Num(LocalCivil(date, offset).y)

\* NaN + 1 is NaN.
Plus1(x) == IF x.nan THEN NaN ELSE Num(x.n + 1)

formatDate(date, offset) ==
    LET day == padStart(String(getDate(date, offset)), 2, <<"0">>)
        month == padStart(String(Plus1(getMonth(date, offset))), 2, <<"0">>)
        year == String(getFullYear(date, offset))
    IN day \o <<"/">> \o month \o <<"/">> \o year

-----------------------------------------------------------------------------
(* JSON.stringify of a hit's _source, Array.prototype.map and join *)

\* A _source is undefined or an object: a sequence of properties, each a key
\* with a number or a string as its value.
NoSource == [def |-> FALSE, props |-> <<>>]
Source(props) == [def |-> TRUE, props |-> props]
NumProp(k, n) == [k |-> k, isNum |-> TRUE, n |-> n, s |-> <<>>]
StrProp(k, s) == [k |-> k, isNum |-> FALSE, n |-> 0, s |-> s]

\* JSON's escape of one character of a string.
Escape(ch) == IF ch = "\"" THEN <<"\\", "\"">>
              ELSE IF ch = "\\" THEN <<"\\", "\\">>
              ELSE IF ch = "\n" THEN <<"\\", "n">>
              ELSE <<ch>>

RECURSIVE Quote(_)
Quote(s) == IF s = <<>> THEN <<>> ELSE Escape(Head(s)) \o Quote(Tail(s))
JSONString(s) == <<"\"">> \o Quote(s) \o <<"\"">>

JSONProp(p) == JSONString(p.k) \o <<":">>
               \o (IF p.isNum THEN String(Num(p.n)) ELSE JSONString(p.s))

RECURSIVE JSONProps(_)
JSONProps(props) ==
    IF props = <<>> THEN <<>>
    ELSE IF Len(props) = 1 THEN JSONProp(props[1])
    ELSE JSONProp(props[1]) \o <<",">> \o JSONProps(Tail(props))

\* JSON.stringify(x): undefined for undefined, else the compact JSON text.
JSONstringify(src) ==
    IF src.def THEN Str(<<"{">> \o JSONProps(src.props) \o <<"}">>)
    ELSE Undefined

\* arr.join(sep): an undefined element contributes the empty string.
RECURSIVE join(_, _)
join(arr, sep) ==
    IF arr = <<>> THEN <<>>
    ELSE IF Len(arr) = 1 THEN (IF arr[1].def THEN arr[1].s ELSE <<>>)
    ELSE (IF arr[1].def THEN arr[1].s ELSE <<>>) \o sep \o join(Tail(arr), sep)

\* A bug: the hits are serialized in the reverse of the engine's order.
populatedResultsReversed(hits) ==
    [i \in 1..Len(hits) |-> JSONstringify(hits[Len(hits) + 1 - i]._source)]

\* results.hits.hits.map((hit) => JSON.stringify(hit._source))
populatedResults(hits) == [i \in 1..Len(hits) |-> JSONstringify(hits[i]._source)]

-----------------------------------------------------------------------------
(* The tool handlers *)

DateTool == "get-search-by-date-results"
SemanticTool == "get-semantic-search-results"

NoInput == [from |-> Undefined, to |-> Undefined, q |-> Undefined]
NoResponse == [got |-> FALSE, hits |-> <<>>]
NoResult == [none |-> TRUE]

BothDatesRequired ==
    <<"B", "o", "t", "h", " ", "f", "r", "o", "m", "D", "a", "t", "e", " ",
      "a", "n", "d", " ", "t", "o", "D", "a", "t", "e", " ", "p", "a", "r",
      "a", "m", "e", "t", "e", "r", "s", " ", "a", "r", "e", " ", "r", "e",
      "q", "u", "i", "r", "e", "d">>
QueryRequired ==
    <<"T", "h", "e", " ", "q", "u", "e", "r", "y", " ", "p", "a", "r", "a",
      "m", "e", "t", "e", "r", " ", "i", "s", " ", "r", "e", "q", "u", "i",
      "r", "e", "d">>

\* The value returned when a required parameter is missing.
MissingParameters(text) ==
    [content |-> <<[type |-> "text", text |-> text]>>,
     isError |-> TRUE,
     _meta |-> [code |-> "MISSING_PARAMETERS"]]

\* The value returned after a search: content only, no isError property.
SuccessResultFlagged(text) ==
    [content |-> <<[type |-> "text", text |-> text]>>, isError |-> TRUE]

SuccessResult(text) == [content |-> <<[type |-> "text", text |-> text]>>]

\* if (!from || !to)
DatesMissingBoth(from, to) == ~Truthy(from) /\ ~Truthy(to)

DatesMissing(from, to) == ~Truthy(from) \/ ~Truthy(to)

\* if (!q)
QueryMissingUndefinedOnly(q) == ~q.def

QueryMissing(q) == ~Truthy(q)

\* The argument of _client.search in get-search-by-date-results.
RangeRequest(from, to, index, offset) ==
    [index |-> index,
     query |-> [range |-> [issue_date |->
        [gte |-> formatDate(NewDate(from.s, offset), offset),
         lte |-> formatDate(NewDate(to.s, offset), offset),
         format |-> "dd/MM/yyyy"]]]]

\* s without its leading and trailing blanks (used by a mutant only).
RECURSIVE TrimStart(_)
TrimStart(s) == IF s # <<>> /\ Head(s) = " " THEN TrimStart(Tail(s)) ELSE s
RECURSIVE TrimEnd(_)
TrimEnd(s) == IF s # <<>> /\ s[Len(s)] = " "
              THEN TrimEnd(SubSeq(s, 1, Len(s) - 1)) ELSE s

SemanticRequestTrimmed(q, index) ==
    [index |-> index,
     query |-> [semantic |-> [field |-> "semantic_field",
                              query |-> TrimEnd(TrimStart(q.s))]]]

\* The argument of _client.search in get-semantic-search-results.
SemanticRequest(q, index) ==
    [index |-> index,
     query |-> [semantic |-> [field |-> "semantic_field", query |-> q.s]]]

\* get-search-by-date-results, from its call to its first await.
DateCall(c, from, to) ==
    /\ pc[c] = "idle"
    /\ tool' = [tool EXCEPT ![c] = DateTool]
    /\ input' = [input EXCEPT ![c] = [from |-> from, to |-> to, q |-> Undefined]]
    /\ IF DatesMissing(from, to)
       THEN /\ result' = [result EXCEPT ![c] = MissingParameters(BothDatesRequired)]
            /\ pc' = [pc EXCEPT ![c] = "returned"]
            /\ steps' = [steps EXCEPT ![c] = <<"validate">>]
            /\ UNCHANGED searchLog
       ELSE /\ searchLog' = [searchLog EXCEPT
                                ![c] = Append(@, RangeRequest(from, to, INDEX, tz))]
            /\ pc' = [pc EXCEPT ![c] = "awaiting"]
            /\ steps' = [steps EXCEPT ![c] = <<"validate", "build", "execute">>]
            /\ UNCHANGED result
    /\ UNCHANGED <<tz, INDEX, response, mcpVars, sseVars>>

\* get-semantic-search-results, from its call to its first await.
SemanticCall(c, q) ==
    /\ pc[c] = "idle"
    /\ tool' = [tool EXCEPT ![c] = SemanticTool]
    /\ input' = [input EXCEPT ![c] = [from |-> Undefined, to |-> Undefined, q |-> q]]
    /\ IF QueryMissing(q)
       THEN /\ result' = [result EXCEPT ![c] = MissingParameters(QueryRequired)]
            /\ pc' = [pc EXCEPT ![c] = "returned"]
            /\ steps' = [steps EXCEPT ![c] = <<"validate">>]
            /\ UNCHANGED searchLog
       ELSE /\ searchLog' = [searchLog EXCEPT
                                ![c] = Append(@, SemanticRequest(q, INDEX))]
            /\ pc' = [pc EXCEPT ![c] = "awaiting"]
            /\ steps' = [steps EXCEPT ![c] = <<"validate", "build", "execute">>]
            /\ UNCHANGED result
    /\ UNCHANGED <<tz, INDEX, response, mcpVars, sseVars>>

\* A bug: the hits are kept in one place shared by the calls, so a call
\* formats the hits of the call that was answered last before it, if any.
SearchResolvedShared(c, hits) ==
    /\ pc[c] = "awaiting"
    /\ response' = [response EXCEPT ![c] = [got |-> TRUE, hits |-> hits]]
    /\ LET others == {d \in DOMAIN pc : d # c /\ response[d].got}
           used == IF others = {} THEN hits
                   ELSE response[CHOOSE d \in others : TRUE].hits
       IN result' = [result EXCEPT
              ![c] = SuccessResult(join(populatedResults(used), <<"\n">>))]
    /\ pc' = [pc EXCEPT ![c] = "returned"]
    /\ steps' = [steps EXCEPT ![c] = Append(@, "format")]
    /\ UNCHANGED <<tz, INDEX, tool, input, searchLog, mcpVars, sseVars>>

\* The search promise resolves: either handler resumes after its await,
\* serializes the hits and returns.
SearchResolved(c, hits) ==
    /\ pc[c] = "awaiting"
    /\ response' = [response EXCEPT ![c] = [got |-> TRUE, hits |-> hits]]
    /\ result' = [result EXCEPT
          ![c] = SuccessResult(join(populatedResults(hits), <<"\n">>))]
    /\ pc' = [pc EXCEPT ![c] = "returned"]
    /\ steps' = [steps EXCEPT ![c] = Append(@, "format")]
    /\ UNCHANGED <<tz, INDEX, tool, input, searchLog, mcpVars, sseVars>>

\* A bug: the handler catches the failure and searches again.
SearchRejectedRetry(c) ==
    /\ pc[c] = "awaiting"
    /\ Len(searchLog[c]) < 3
    /\ searchLog' = [searchLog EXCEPT ![c] = Append(@, @[1])]
    /\ UNCHANGED <<tz, INDEX, pc, tool, input, response, result, steps,
                   mcpVars, sseVars>>

\* The search promise rejects (network or authentication failure): the
\* await throws and nothing in the handler catches it.
SearchRejected(c) ==
    /\ pc[c] = "awaiting"
    /\ pc' = [pc EXCEPT ![c] = "faulted"]
    /\ UNCHANGED <<tz, INDEX, tool, input, searchLog, response, result, steps,
                   mcpVars, sseVars>>

-----------------------------------------------------------------------------
(* src/src/index.ts: the Streamable-HTTP routes *)

NoRequest == [method |-> "none", pos |-> "none", threw |-> FALSE,
              sentAtCatch |-> FALSE, status |-> 0, body |-> [opaque |-> "none"]]

\* The body of the 500 answer of the catch block of POST /mcp.
InternalErrorBodyWithDetail(err) ==
    [jsonrpc |-> "2.0",
     error |-> [code |-> -32603, message |-> err],
     id |-> "null"]

InternalErrorBody(err) ==
    [jsonrpc |-> "2.0",
     error |-> [code |-> -32603, message |-> "Internal server error"],
     id |-> "null"]

\* The body of the 405 answers of GET /mcp and DELETE /mcp.
MethodNotAllowedBody ==
    [jsonrpc |-> "2.0",
     error |-> [code |-> -32000, message |-> "Method not allowed."],
     id |-> "null"]

\* setupServer().then(...): server.connect resolved and app.listen is called.
SetupServerListens ==
    /\ listening = "starting"
    /\ listening' = "listening"
    /\ UNCHANGED <<reqState, errorLog, toolVars, sseVars>>

\* setupServer().catch(...): server.connect rejected; process.exit(1).
SetupServerFails(err) ==
    /\ listening = "starting"
    /\ listening' = "exited"
    /\ errorLog' = Append(errorLog, [req |-> 0, err |-> err])
    /\ UNCHANGED <<reqState, toolVars, sseVars>>

\* app.post("/mcp"), up to its await of transport.handleRequest.
PostMcp(r) ==
    /\ listening = "listening"
    /\ reqState[r].pos = "none"
    /\ reqState' = [reqState EXCEPT ![r] = [@ EXCEPT !.method = "POST",
                                                       !.pos = "handling"]]
    /\ UNCHANGED <<listening, errorLog, toolVars, sseVars>>

\* What the transport itself wrote to the response: not this program's text.
TransportBody == [opaque |-> "transport"]

\* transport.handleRequest resolves: the transport has written the answer.
HandleRequestReturns(r) ==
    /\ reqState[r].pos = "handling"
    /\ reqState' = [reqState EXCEPT ![r] = [@ EXCEPT !.pos = "done",
                                                       !.status = 200,
                                                       !.body = TransportBody]]
    /\ UNCHANGED <<listening, errorLog, toolVars, sseVars>>

\* transport.handleRequest rejects with err, the response headers sent or
\* not by then: the catch block logs and, if no header was sent, answers 500.
HandleRequestThrows(r, err, headersSent) ==
    /\ reqState[r].pos = "handling"
    /\ errorLog' = Append(errorLog, [req |-> r, err |-> err])
    /\ reqState' = [reqState EXCEPT ![r] =
          IF ~headersSent
          THEN [@ EXCEPT !.pos = "done", !.threw = TRUE, !.sentAtCatch = FALSE,
                         !.status = 500, !.body = InternalErrorBody(err)]
          ELSE [@ EXCEPT !.pos = "done", !.threw = TRUE, !.sentAtCatch = TRUE,
                         !.status = 200, !.body = TransportBody]]
    /\ UNCHANGED <<listening, toolVars, sseVars>>

\* app.get("/mcp") and app.delete("/mcp"): 405.
MethodNotAllowed(r, method) ==
    /\ listening = "listening"
    /\ reqState[r].pos = "none"
    /\ reqState' = [reqState EXCEPT ![r] = [@ EXCEPT !.method = method,
                                                       !.pos = "done",
                                                       !.status = 405,
                                                       !.body = MethodNotAllowedBody]]
    /\ UNCHANGED <<listening, errorLog, toolVars, sseVars>>

-----------------------------------------------------------------------------
(* src/unnamed/part_000: the SSE routes and the `transports` object *)

SessionIds == {"s1", "s2", "s3"}

\* Property names every object literal inherits from Object.prototype.
ObjectPrototypeKeys == {"constructor", "__proto__"}

\* What req.query.sessionId can be, as a property key: a session id, any
\* other text, or "undefined" when the parameter is absent.
QuerySessionIds == SessionIds \cup ObjectPrototypeKeys \cup {"undefined"}

ClosedConn == [open |-> FALSE, sid |-> ""]

\* transports[key]: an own property, else one inherited from
\* Object.prototype, else undefined.
LookupOwnOnly(key) ==
    IF key \in DOMAIN transports
    THEN [kind |-> "transport", conn |-> transports[key]]
    ELSE [kind |-> "undefined", conn |-> 0]

Lookup(key) ==
    IF key \in DOMAIN transports
    THEN [kind |-> "transport", conn |-> transports[key]]
    ELSE IF key \in ObjectPrototypeKeys
    THEN [kind |-> "inherited", conn |-> 0]
    ELSE [kind |-> "undefined", conn |-> 0]

\* app.get("/sse"): a new SSEServerTransport with a fresh random sessionId
\* is stored under it, and the close handler is registered.
GetSse(k, sid) ==
    /\ ~conns[k].open
    /\ sid \in SessionIds \ DOMAIN transports
    /\ transports' = [x \in DOMAIN transports \cup {sid} |->
                         IF x = sid THEN k ELSE transports[x]]
    /\ conns' = [conns EXCEPT ![k] = [open |-> TRUE, sid |-> sid]]
    /\ UNCHANGED <<posts, toolVars, mcpVars>>

\* res.on("close"): delete transports[transport.sessionId].
CloseSse(k) ==
    /\ conns[k].open
    /\ transports' = [x \in DOMAIN transports \ {conns[k].sid} |-> transports[x]]
    /\ conns' = [conns EXCEPT ![k] = ClosedConn]
    /\ UNCHANGED <<posts, toolVars, mcpVars>>

\* app.post("/es-queries"): forward to the transport found, else 400.
\* A truthy value that is no transport has no handlePostMessage: the call
\* throws a TypeError and the handler writes no answer.
PostEsQueries(sessionId) ==
    /\ Len(posts) < MaxPosts
    /\ LET transport == Lookup(sessionId)
       IN posts' = Append(posts,
             [sessionId |-> sessionId,
              inMap |-> sessionId \in DOMAIN transports,
              outcome |-> IF transport.kind = "transport" THEN "forwarded"
                          ELSE IF transport.kind = "inherited" THEN "TypeError"
                          ELSE "400",
              to |-> transport.conn])
    /\ UNCHANGED <<transports, conns, toolVars, mcpVars>>

-----------------------------------------------------------------------------
(* Inputs *)

D_2024_01_01 == <<"2", "0", "2", "4", "-", "0", "1", "-", "0", "1">>
D_2024_01_31 == <<"2", "0", "2", "4", "-", "0", "1", "-", "3", "1">>
D_2024_03_01 == <<"2", "0", "2", "4", "-", "0", "3", "-", "0", "1">>
D_2024_06_15T23_30 ==
    <<"2", "0", "2", "4", "-", "0", "6", "-", "1", "5", "T", "2", "3", ":", "3", "0">>
NotADate == <<"n", "o", "t", " ", "a", " ", "d", "a", "t", "e">>

DateArgs == {Undefined, Str(<<>>), Str(D_2024_01_01), Str(D_2024_01_31),
             Str(D_2024_03_01), Str(D_2024_06_15T23_30), Str(NotADate)}
ConcDateArgs == {Str(<<>>), Str(D_2024_01_31), Str(D_2024_01_01)}

QueryArgs == {Undefined, Str(<<>>), Str(<<" ">>), Str(<<" ", "\t", "\n">>),
              Str(<<"t", "a", "x">>), Str(<<" ", "t", "a", "x", " ">>)}
ConcQueryArgs == {Str(<<>>), Str(<<"t", "a", "x">>)}

\* Minutes east of UTC: New York (EST), UTC, Berlin (CEST).
TimeZones == {-300, 0, 120}
ConcTimeZones == {-300}

IndexNames == {"invoices", "invoices-test"}
ConcIndexNames == {"invoices"}

invoice == <<"i", "n", "v", "o", "i", "c", "e">>
memo == <<"m", "e", "m", "o">>
Hit1 == [_source |-> Source(<<NumProp(invoice, 1)>>)]
Hit2 == [_source |-> Source(<<NumProp(invoice, 2)>>)]
HitMemo == [_source |-> Source(<<NumProp(invoice, 10),
                                 StrProp(memo, <<"a", "\n", "\"", "b">>)>>)]
HitNoSource == [_source |-> NoSource]

HitSet == {Hit1, Hit2, HitMemo, HitNoSource}
ConcHitSet == {Hit1, Hit2}

\* The sequences over S of length at most n.
SeqsUpTo(S, n) == UNION {[1..k -> S] : k \in 0..n}

Faults == {"connect ECONNREFUSED", "security_exception"}

-----------------------------------------------------------------------------
(* Specifications *)

InitTool(calls, zones, indexes) ==
    /\ tz \in zones
    /\ INDEX \in indexes
    /\ pc = [c \in calls |-> "idle"]
    /\ tool = [c \in calls |-> "none"]
    /\ input = [c \in calls |-> NoInput]
    /\ searchLog = [c \in calls |-> <<>>]
    /\ response = [c \in calls |-> NoResponse]
    /\ result = [c \in calls |-> NoResult]
    /\ steps = [c \in calls |-> <<>>]

InitMcp ==
    /\ listening = "starting"
    /\ reqState = [r \in 1..NumRequests |-> NoRequest]
    /\ errorLog = <<>>

InitSse ==
    /\ transports = [x \in {} |-> 0]
    /\ conns = [k \in 1..NumConns |-> ClosedConn]
    /\ posts = <<>>

\* Concurrent tool calls.
Init == InitTool(1..NumCalls, ConcTimeZones, ConcIndexNames) /\ InitMcp /\ InitSse

Next ==
    \/ \E c \in DOMAIN pc, from \in ConcDateArgs, to \in ConcDateArgs :
          DateCall(c, from, to)
    \/ \E c \in DOMAIN pc, q \in ConcQueryArgs : SemanticCall(c, q)
    \/ \E c \in DOMAIN pc, hits \in SeqsUpTo(ConcHitSet, ConcHits) :
          SearchResolved(c, hits)
    \/ \E c \in DOMAIN pc : SearchRejected(c)

Spec == Init /\ [][Next]_vars

\* One tool call, over the wide input sets.
InitCall == InitTool({1}, TimeZones, IndexNames) /\ InitMcp /\ InitSse

NextCall ==
    \/ \E from \in DateArgs, to \in DateArgs : DateCall(1, from, to)
    \/ \E q \in QueryArgs : SemanticCall(1, q)
    \/ \E hits \in SeqsUpTo(HitSet, MaxHits) : SearchResolved(1, hits)
    \/ SearchRejected(1)

SpecCall == InitCall /\ [][NextCall]_vars

\* The Streamable-HTTP server of index.ts.
InitHttp == InitTool({1}, {0}, ConcIndexNames) /\ InitMcp /\ InitSse

NextMcp ==
    \/ SetupServerListens
    \/ \E err \in Faults : SetupServerFails(err)
    \/ \E r \in 1..NumRequests :
        \/ PostMcp(r)
        \/ HandleRequestReturns(r)
        \/ \E err \in Faults, sent \in BOOLEAN : HandleRequestThrows(r, err, sent)
        \/ \E method \in {"GET", "DELETE"} : MethodNotAllowed(r, method)

SpecMcp == InitHttp /\ [][NextMcp]_vars

\* The SSE server of part_000.
NextSse ==
    \/ \E k \in 1..NumConns, sid \in SessionIds : GetSse(k, sid)
    \/ \E k \in 1..NumConns : CloseSse(k)
    \/ \E sessionId \in QuerySessionIds : PostEsQueries(sessionId)

SpecSse == InitHttp /\ [][NextSse]_vars

-----------------------------------------------------------------------------
(* Vocabulary of the claims *)

\* A parameter that is missing or the empty string.
MissingOrEmpty(x) == ~x.def \/ Len(x.s) = 0

\* A string made of whitespace only (the empty string included).
Blank(x) == x.def /\ \A i \in 1..Len(x.s) : x.s[i] \in {" ", "\t", "\n"}

\* The call was answered with the missing-parameter error, as a returned
\* value, and never reached the search client.
ShortCircuited(c) ==
    /\ pc[c] = "returned"
    /\ "isError" \in DOMAIN result[c] /\ result[c].isError = TRUE
    /\ "_meta" \in DOMAIN result[c]
    /\ result[c]._meta.code = "MISSING_PARAMETERS"
    /\ searchLog[c] = <<>>

\* The call passed validation and handed exactly `request` to the client.
Searched(c, request) ==
    /\ pc[c] \in {"awaiting", "returned", "faulted"}
    /\ searchLog[c] = <<request>>

\* dd/MM/yyyy of the calendar date written in an ISO string YYYY-MM-DD...
OwnDate(s) == <<s[9], s[10], "/", s[6], s[7], "/", s[1], s[2], s[3], s[4]>>

ValidDate(x) == x.def /\ (IsDateOnly(x.s) \/ IsDateTime(x.s))

Newlines(text) == Cardinality({i \in 1..Len(text) : text[i] = "\n"})

\* text split at its newlines.
RECURSIVE SplitLines(_)
SplitLines(text) ==
    IF \A i \in 1..Len(text) : text[i] # "\n" THEN <<text>>
    ELSE LET i == CHOOSE k \in 1..Len(text) :
                     text[k] = "\n" /\ \A m \in 1..(k - 1) : text[m] # "\n"
         IN <<SubSeq(text, 1, i - 1)>> \o SplitLines(SubSeq(text, i + 1, Len(text)))

\* The serialized payload of a hit as it appears in the text.
Serialized(hit) == LET j == JSONstringify(hit._source)
                   IN IF j.def THEN j.s ELSE <<>>

Succeeded(c) == pc[c] = "returned" /\ response[c].got
ResultText(c) == result[c].content[1].text

Scenario3Text ==
    <<"{", "\"", "i", "n", "v", "o", "i", "c", "e", "\"", ":", "1", "}", "\n",
      "{", "\"", "i", "n", "v", "o", "i", "c", "e", "\"", ":", "2", "}">>

-----------------------------------------------------------------------------
(* Claims *)

\* C1: a get-search-by-date-results call whose `from` or `to` is missing or
\* the empty string returns (does not throw) isError = true with code
\* MISSING_PARAMETERS, and the search client is not invoked for it.
C1_MissingDatesShortCircuit ==
    \A c \in DOMAIN pc :
        (tool[c] = DateTool
         /\ (MissingOrEmpty(input[c].from) \/ MissingOrEmpty(input[c].to)))
        => ShortCircuited(c)

C1_Witness ==
    \E c \in DOMAIN pc :
        /\ tool[c] = DateTool
        /\ input[c].from = Str(D_2024_01_01) /\ input[c].to = Str(<<>>)
        /\ ShortCircuited(c)

\* C2 as claimed: a get-semantic-search-results call whose `q` is empty or
\* only whitespace short-circuits with the missing-parameter error and makes
\* no search call.
C2_BlankQueryShortCircuits ==
    \A c \in DOMAIN pc :
        (tool[c] = SemanticTool
         /\ (MissingOrEmpty(input[c].q) \/ Blank(input[c].q)))
        => ShortCircuited(c)

\* C2 as amended: a call whose `q` is missing or the empty string
\* short-circuits with the missing-parameter error and makes no search call;
\* a `q` of whitespace only is not empty and is searched for as given.
C2_EmptyQueryShortCircuits ==
    \A c \in DOMAIN pc :
        tool[c] = SemanticTool =>
            /\ MissingOrEmpty(input[c].q) => ShortCircuited(c)
            /\ (Blank(input[c].q) /\ ~MissingOrEmpty(input[c].q))
               => /\ ~ShortCircuited(c)
                  /\ Len(searchLog[c]) = 1
                  /\ searchLog[c][1].query.semantic.query = input[c].q.s

C2_Witness ==
    \E c \in DOMAIN pc :
        /\ tool[c] = SemanticTool
        /\ input[c].q = Str(<<>>)
        /\ ShortCircuited(c)

\* C3: for valid date strings `from` and `to` the date-range handler issues
\* a range query on issue_date with gte = `from` and lte = `to`, each as
\* dd/MM/yyyy of the input's own calendar date, and format "dd/MM/yyyy".
C3_RangeIsInputsOwnDate ==
    \A c \in DOMAIN pc :
        (tool[c] = DateTool
         /\ ValidDate(input[c].from) /\ ValidDate(input[c].to))
        => Searched(c, [index |-> INDEX,
                        query |-> [range |-> [issue_date |->
                            [gte |-> OwnDate(input[c].from.s),
                             lte |-> OwnDate(input[c].to.s),
                             format |-> "dd/MM/yyyy"]]]])

\* C4: for a non-empty `q` the semantic handler issues
\* { semantic: { field: "semantic_field", query: q } } with q exactly as
\* received, against the configured index.
C4_SemanticQueryVerbatim ==
    \A c \in DOMAIN pc :
        (tool[c] = SemanticTool /\ ~MissingOrEmpty(input[c].q))
        => Searched(c, [index |-> INDEX,
                        query |-> [semantic |->
                            [field |-> "semantic_field",
                             query |-> input[c].q.s]]])

C4_Witness ==
    \E c \in DOMAIN pc :
        /\ tool[c] = SemanticTool
        /\ input[c].q = Str(<<" ", "t", "a", "x", " ">>)
        /\ Len(searchLog[c]) = 1

\* C5: the text of a result is the hits' serialized payloads in the engine's
\* order joined by newlines: the empty string for no hit, and for N >= 1
\* hits N - 1 newlines with the i-th segment the serialization of hit i.
C5_TextIsJoinedHits ==
    \A c \in DOMAIN pc :
        Succeeded(c) =>
            LET hits == response[c].hits
                text == ResultText(c)
            IN /\ Len(hits) = 0 => text = <<>>
               /\ Len(hits) >= 1 =>
                    /\ Newlines(text) = Len(hits) - 1
                    /\ SplitLines(text) = [i \in 1..Len(hits) |-> Serialized(hits[i])]
               /\ hits = <<Hit1, Hit2>> => text = Scenario3Text

C5_Witness ==
    \E c \in DOMAIN pc :
        /\ Succeeded(c)
        /\ response[c].hits = <<HitMemo, Hit1>>
        /\ Newlines(ResultText(c)) = 1

\* C6 as claimed: every returned result has an explicit isError, true
\* exactly for validation errors and false exactly for successes.
C6_IsErrorAlwaysExplicit ==
    \A c \in DOMAIN pc :
        pc[c] = "returned" =>
            /\ "isError" \in DOMAIN result[c]
            /\ result[c].isError = ~Succeeded(c)

\* C6 as amended: a call that passes validation and whose search succeeds
\* returns a result carrying the formatted string and no isError property
\* (isError is left out, not set to false); across both tools isError is
\* true exactly for validation errors and absent exactly for successes.
C6_IsErrorOnlyOnValidationError ==
    \A c \in DOMAIN pc :
        pc[c] = "returned" =>
            IF Succeeded(c)
            THEN /\ DOMAIN result[c] = {"content"}
                 /\ Len(result[c].content) = 1
                 /\ result[c].content[1].type = "text"
                 /\ SplitLines(ResultText(c)) =
                        IF response[c].hits = <<>> THEN << <<>> >>
                        ELSE [i \in 1..Len(response[c].hits) |->
                                 Serialized(response[c].hits[i])]
            ELSE /\ "isError" \in DOMAIN result[c]
                 /\ result[c].isError = TRUE
                 /\ searchLog[c] = <<>>

C6_Witness ==
    \E c \in DOMAIN pc :
        /\ Succeeded(c)
        /\ tool[c] = DateTool
        /\ response[c].hits = <<Hit2>>
        /\ "isError" \notin DOMAIN result[c]

\* C7: a call that passes validation makes one attempt against the search
\* engine: if it fails the failure leaves the handler as a fault, no second
\* search request is issued for the call, and no result is returned for it.
C7_SingleAttempt ==
    \A c \in DOMAIN pc :
        /\ Len(searchLog[c]) <= 1
        /\ pc[c] \in {"awaiting", "faulted"} =>
               Len(searchLog[c]) = 1 /\ result[c] = NoResult
        /\ pc[c] = "faulted" => ~response[c].got
        /\ Succeeded(c) => Len(searchLog[c]) = 1

C7_Witness ==
    \E c \in DOMAIN pc : pc[c] = "faulted" /\ Len(searchLog[c]) = 1

\* C8 as claimed: whenever handling a POST /mcp raises a fault, the request
\* is answered 500 with JSON-RPC error -32603 "Internal server error" and
\* no error detail, and the process keeps serving.
C8_FaultAlwaysAnswered500 ==
    \A r \in DOMAIN reqState :
        reqState[r].threw =>
            /\ reqState[r].status = 500
            /\ reqState[r].body =
                 [jsonrpc |-> "2.0",
                  error |-> [code |-> -32603, message |-> "Internal server error"],
                  id |-> "null"]
            /\ listening = "listening"

\* C8 as amended: whenever handling a POST /mcp raises a fault and no
\* response header has been sent yet, the request is answered 500 with
\* JSON-RPC error -32603 "Internal server error" and no error detail; if
\* headers were already sent, nothing more is written to the response; in
\* both cases the fault is logged and the process keeps serving.
C8_FaultAnswered500UnlessHeadersSent ==
    \A r \in DOMAIN reqState :
        reqState[r].threw =>
            /\ listening = "listening"
            /\ \E i \in 1..Len(errorLog) : errorLog[i].req = r
            /\ IF reqState[r].sentAtCatch
               THEN reqState[r].status # 500 /\ reqState[r].body = TransportBody
               ELSE /\ reqState[r].status = 500
                    /\ reqState[r].body =
                         [jsonrpc |-> "2.0",
                          error |-> [code |-> -32603,
                                     message |-> "Internal server error"],
                          id |-> "null"]

C8_Witness ==
    \E r1, r2 \in DOMAIN reqState :
        /\ reqState[r1].threw /\ ~reqState[r1].sentAtCatch
        /\ reqState[r1].status = 500
        /\ reqState[r2].method = "POST" /\ reqState[r2].pos = "handling"

\* C9: under any interleaving of concurrent calls each call runs
\* validate, build, execute, format in that order, its requests and result
\* depend only on its own arguments and on the answer to its own query, and
\* the shared index name is the same for every request.
C9_CallsAreIndependent ==
    \A c \in DOMAIN pc :
        /\ \E n \in 0..4 :
              steps[c] = SubSeq(<<"validate", "build", "execute", "format">>, 1, n)
        /\ \A i \in 1..Len(searchLog[c]) :
              /\ searchLog[c][i].index = INDEX
              /\ tool[c] = SemanticTool =>
                    searchLog[c][i].query.semantic.query = input[c].q.s
              /\ tool[c] = DateTool =>
                    /\ searchLog[c][i].query.range.issue_date.gte =
                          formatDate(NewDate(input[c].from.s, tz), tz)
                    /\ searchLog[c][i].query.range.issue_date.lte =
                          formatDate(NewDate(input[c].to.s, tz), tz)
        /\ Succeeded(c) =>
              /\ steps[c] = <<"validate", "build", "execute", "format">>
              /\ SplitLines(ResultText(c)) =
                    IF response[c].hits = <<>> THEN << <<>> >>
                    ELSE [i \in 1..Len(response[c].hits) |->
                             Serialized(response[c].hits[i])]

C9_Witness ==
    \E c, d \in DOMAIN pc :
        /\ c # d
        /\ Succeeded(c) /\ response[c].hits = <<Hit1>>
        /\ Succeeded(d) /\ response[d].hits = <<Hit2>>
        /\ tool[c] = DateTool /\ tool[d] = SemanticTool

\* C10: a POST /es-queries is forwarded to a transport only if its sessionId
\* is in the session map, and otherwise is answered 400 with no transport
\* invoked; the map holds exactly the sessions of the open SSE connections.
C10_UnknownSessionAnswered400 ==
    /\ DOMAIN transports = {conns[k].sid : k \in {j \in DOMAIN conns : conns[j].open}}
    /\ \A i \in 1..Len(posts) :
          /\ posts[i].outcome = "forwarded" => posts[i].inMap
          /\ ~posts[i].inMap => posts[i].outcome = "400"

====
